---------------------------- MODULE Spec2Model ----------------------------
(* Model of the commit-generation orchestrator, src/auto_commit/cli.py      *)
(* (command `generate`).  One action per stage of the command; the          *)
(* repository adapter, the credential resolver and the generation backend   *)
(* are the collaborators the command imports.                                *)
EXTENDS Integers, Sequences, FiniteSets, TLC

(***************************************************************************)
(* Bounds                                                                  *)
(***************************************************************************)
MaxFiles == 1
MaxRuns == 2

Files == 1..MaxFiles

(***************************************************************************)
(* Exit codes, cli.py lines 24-33                                          *)
(***************************************************************************)
EXIT_SUCCESS == 0
EXIT_NOT_GIT_REPO == 1
EXIT_STAGE_FAILED == 2
EXIT_NO_CHANGES == 3
EXIT_API_KEY_MISSING == 10
EXIT_API_KEY_INVALID == 11
EXIT_QUOTA_EXCEEDED == 12
EXIT_API_ERROR == 13
EXIT_COMMIT_FAILED == 20
EXIT_UNKNOWN_ERROR == 99

\* cli.py line 206, app(): exit code of a command aborted by Ctrl-C
EXIT_ABORTED == 1

\* exit_code while the command is still running
Running == 0 - 1

(***************************************************************************)
(* Input domains                                                           *)
(***************************************************************************)
Providers == {"gemini", "openai"}
\* "" stands for None (no --model given)
Models == {"", "gemini-pro"}
\* "" is the absent credential
NoKey == ""
EnvKeys == {NoKey, "env-key"}
StoredKeys == {NoKey, "stored-key"}
EnteredKeys == {NoKey, "typed-key"}
\* the empty diff is the empty set of staged files
EmptyDiff == {}
Messages == {"feat: add X", "fix: Y"}

\* exception classes that can leave the try block of generate
LLMErrorKinds == {"APIKeyMissingError", "APIKeyInvalidError",
                  "APIQuotaExceededError", "APIRequestError", "LLMClientError"}
BackendFailures == LLMErrorKinds \cup {"Exception"}

Ops == {"is_git_repo", "stage_all_changes", "get_git_diff", "Prompt.ask",
        "save_key_to_env", "generate_commit_message", "Confirm.ask",
        "commit_changes"}

\* the two output streams of the process
Streams == {"stdout", "stderr"}

VARIABLES
    provider, model, yes, print_only,   \* options of the invocation
    is_repo, worktree, index, commits,  \* the repository
    env_key, store, GEMINI_API_KEY,     \* the credential
    pc, diff, current_key, client, message, should_commit,
    out, exit_code,
    log,                                \* calls made to the collaborators
    run, pre, prev

opts == <<provider, model, yes, print_only>>
repo == <<is_repo, worktree, index, commits>>
cred == <<env_key, store, GEMINI_API_KEY>>
locals == <<diff, current_key, client, message, should_commit>>
runs == <<run, pre, prev>>
vars == <<opts, repo, cred, pc, locals, out, exit_code, log, runs>>

stdout == out["stdout"]
stderr == out["stderr"]

(***************************************************************************)
(* Collaborators                                                           *)
(***************************************************************************)
\* config: the credential comes from the environment first, then the store
resolve(env, stored) == IF env # NoKey THEN env ELSE stored

\* save_key_to_env(name, value): the value becomes the stored credential
save_key_to_env(stored, value) == value

\* stage_all_changes(): on success everything modified becomes staged
stage_all_changes(ok, wt, idx) ==
    IF ok THEN [ok |-> TRUE, worktree |-> {}, index |-> idx \cup wt]
          ELSE [ok |-> FALSE, worktree |-> wt, index |-> idx]

\* get_git_diff(staged=True): the staged delta, empty when nothing is staged
\* or when the underlying tool fails
get_git_diff(ok, idx) == IF ok THEN idx ELSE EmptyDiff

\* commit_changes(message): commits the staged content; fails on an empty
\* staging area or when the underlying tool fails
commit_changes(ok, msg, idx, cs) ==
    IF ok /\ idx # {}
    THEN [ok |-> TRUE, index |-> {},
          commits |-> Append(cs, [message |-> msg, files |-> idx])]
    ELSE [ok |-> FALSE, index |-> idx, commits |-> cs]

\* error_code attribute of the backend's exception classes
error_code(cls) ==
    CASE cls = "APIKeyMissingError" -> "API_KEY_MISSING"
      [] cls = "APIKeyInvalidError" -> "API_KEY_INVALID"
      [] cls = "APIQuotaExceededError" -> "QUOTA_EXCEEDED"
      [] cls = "APIRequestError" -> "API_ERROR"
      [] OTHER -> "UNKNOWN"

\* class hierarchy: isinstance(an instance of cls, base)
IsInstance(cls, base) ==
    \/ cls = base
    \/ base = "Exception" /\ cls # "KeyboardInterrupt"
    \/ base = "LLMClientError" /\ cls \in LLMErrorKinds

(***************************************************************************)
(* Output: an entry is <<style, text>>                                     *)
(***************************************************************************)
\* console = Console(stderr=True), line 39
StdoutConsole == "stdout"

console_file == "stderr"

\* console.print / console.status / Prompt.ask(console=console)
console_print(o, style, text) ==
    [o EXCEPT ![console_file] = Append(@, <<style, text>>)]

\* print_error(message, error_code), lines 42-45
print_error(o, code) == console_print(o, "error", code)

\* builtin print(message), line 146: the message and nothing else, on stdout
print(o, msg) == [o EXCEPT !["stdout"] = Append(@, <<"plain", msg>>)]

(***************************************************************************)
(* Conditions of generate                                                  *)
(***************************************************************************)
NeverNotGitRepo(r) == FALSE

\* line 70: if not is_git_repo()
NotGitRepo(r) == ~r

InvertedStageFailed(r) == r

\* lines 80, 85: if not stage_all_changes()
StageFailed(r) == ~r

NeverNoChanges(d) == FALSE

NoChangesAfterProvider(d) == d = EmptyDiff /\ provider = "gemini"

\* line 96: if not diff
NoChanges(d) == d = EmptyDiff

AnyProvider(p) == FALSE

\* line 104: if provider != "gemini"
Unsupported(p) == p # "gemini"

\* line 115: if not current_key
KeyMissing(k) == k = NoKey

AlwaysEntered(k) == TRUE

NeverEntered(k) == FALSE

\* line 129: if current_key
Entered(k) == k # NoKey

YesOverridesPrintOnly(po) == po /\ ~yes

\* line 141: if print_only
PrintOnly(po) == po

StoredKeyArg == GEMINI_API_KEY

\* lines 143, 153: api_key=current_key
api_key_arg == current_key

NoStagingInPrintOnly(po, ok, wt, idx) ==
    IF ~po THEN stage_all_changes(ok, wt, idx)
    ELSE [ok |-> TRUE, worktree |-> wt, index |-> idx]

\* lines 78-87: both branches of `if not print_only` call stage_all_changes()
StageCall(po, ok, wt, idx) ==
    IF ~po THEN stage_all_changes(ok, wt, idx)
    ELSE stage_all_changes(ok, wt, idx)

AlwaysInteractive(po) == FALSE

\* line 116: if print_only
NonInteractive(po) == po

NeverSkipConfirmation(y) == FALSE

\* line 160: if yes
SkipConfirmation(y) == y

AlwaysAccepted(sc) == TRUE

\* line 167: if should_commit
Accepted(sc) == sc

(***************************************************************************)
(* The except clauses of generate, in source order.  action "exit" prints  *)
(* the error and exits with `code`; action "reraise" lets the exception    *)
(* through.                                                                *)
(***************************************************************************)
NoExitHandlers ==
    << [cls |-> "APIKeyMissingError", action |-> "exit", code |-> EXIT_API_KEY_MISSING],
       [cls |-> "APIKeyInvalidError", action |-> "exit", code |-> EXIT_API_KEY_INVALID],
       [cls |-> "APIQuotaExceededError", action |-> "exit", code |-> EXIT_QUOTA_EXCEEDED],
       [cls |-> "APIRequestError", action |-> "exit", code |-> EXIT_API_ERROR],
       [cls |-> "LLMClientError", action |-> "exit", code |-> EXIT_UNKNOWN_ERROR],
       [cls |-> "Exception", action |-> "exit", code |-> EXIT_UNKNOWN_ERROR] >>

GenericFirstHandlers ==
    << [cls |-> "LLMClientError", action |-> "exit", code |-> EXIT_UNKNOWN_ERROR],
       [cls |-> "APIKeyMissingError", action |-> "exit", code |-> EXIT_API_KEY_MISSING],
       [cls |-> "APIKeyInvalidError", action |-> "exit", code |-> EXIT_API_KEY_INVALID],
       [cls |-> "APIQuotaExceededError", action |-> "exit", code |-> EXIT_QUOTA_EXCEEDED],
       [cls |-> "APIRequestError", action |-> "exit", code |-> EXIT_API_ERROR],
       [cls |-> "Exit", action |-> "reraise", code |-> 0],
       [cls |-> "Exception", action |-> "exit", code |-> EXIT_UNKNOWN_ERROR] >>

MissingRaiseHandlers ==
    << [cls |-> "APIKeyMissingError", action |-> "exit", code |-> EXIT_API_KEY_MISSING],
       [cls |-> "APIKeyInvalidError", action |-> "exit", code |-> EXIT_API_KEY_INVALID],
       [cls |-> "APIQuotaExceededError", action |-> "exit", code |-> EXIT_QUOTA_EXCEEDED],
       [cls |-> "APIRequestError", action |-> "exit", code |-> EXIT_SUCCESS],
       [cls |-> "LLMClientError", action |-> "exit", code |-> EXIT_UNKNOWN_ERROR],
       [cls |-> "Exit", action |-> "reraise", code |-> 0],
       [cls |-> "Exception", action |-> "exit", code |-> EXIT_UNKNOWN_ERROR] >>

Handlers ==
    << [cls |-> "APIKeyMissingError", action |-> "exit", code |-> EXIT_API_KEY_MISSING],
       [cls |-> "APIKeyInvalidError", action |-> "exit", code |-> EXIT_API_KEY_INVALID],
       [cls |-> "APIQuotaExceededError", action |-> "exit", code |-> EXIT_QUOTA_EXCEEDED],
       [cls |-> "APIRequestError", action |-> "exit", code |-> EXIT_API_ERROR],
       [cls |-> "LLMClientError", action |-> "exit", code |-> EXIT_UNKNOWN_ERROR],
       [cls |-> "Exit", action |-> "reraise", code |-> 0],
       [cls |-> "Exception", action |-> "exit", code |-> EXIT_UNKNOWN_ERROR] >>

\* the except clauses that match the raised exception
Matching(cls) == {k \in 1..Len(Handlers) : IsInstance(cls, Handlers[k].cls)}

\* the first except clause that matches the raised exception
FirstHandler(cls) ==
    LET i == CHOOSE k \in Matching(cls) : \A j \in Matching(cls) : k <= j
    IN Handlers[i]

\* app(), cli.py line 206: what the process does with an exception that
\* leaves generate.  typer.Exit ends the process with its code; Ctrl-C
\* (KeyboardInterrupt) ends it with "Aborted!" on stderr and EXIT_ABORTED.
Uncaught(exc, o) ==
    IF exc.cls = "Exit"
    THEN [code |-> exc.code, out |-> o]
    ELSE [code |-> EXIT_ABORTED,
          out |-> [o EXCEPT !["stderr"] = Append(@, <<"plain", "Aborted!">>)]]

\* what the try statement does with exception exc = [cls, code, error_code]:
\* the exit code of the process and the new output
HandleException(exc, o) ==
    IF Matching(exc.cls) = {} \/ FirstHandler(exc.cls).action = "reraise"
    THEN Uncaught(exc, o)
    ELSE [code |-> FirstHandler(exc.cls).code,
          out |-> print_error(o, IF FirstHandler(exc.cls).cls = "Exception"
                                 THEN "UNKNOWN" ELSE exc.error_code)]

\* raise typer.Exit(code=c)
Exit(c) == [cls |-> "Exit", code |-> c, error_code |-> ""]

\* Ctrl-C during a blocking call
KeyboardInterrupt == [cls |-> "KeyboardInterrupt", code |-> 0, error_code |-> ""]

\* an exception raised by the backend
BackendError(cls) == [cls |-> cls, code |-> 0, error_code |-> error_code(cls)]

(***************************************************************************)
(* State of one invocation                                                 *)
(***************************************************************************)
NoClient == [provider |-> "", model |-> "", api_key |-> NoKey]
NoOutput == [f \in Streams |-> << >>]
Snapshot(wt, idx, cs, st) == <<wt, idx, cs, st>>
NoPrev == [exit |-> Running, pre |-> << >>, post |-> << >>, log |-> << >>]

\* one call of a collaborator: its name, its argument and what it returned
Call(op, arg, ret) == [op |-> op, arg |-> arg, ret |-> ret]
Calls(l, op) == SelectSeq(l, LAMBDA e : e.op = op)
NCalls(l, op) == Len(Calls(l, op))

Init ==
    /\ provider \in Providers
    /\ model \in Models
    /\ yes \in BOOLEAN
    /\ print_only \in BOOLEAN
    /\ is_repo \in BOOLEAN
    /\ worktree \in SUBSET Files
    /\ index \in SUBSET Files
    /\ ~is_repo => (worktree = {} /\ index = {})
    /\ commits = << >>
    /\ env_key \in EnvKeys
    /\ store \in StoredKeys
    /\ GEMINI_API_KEY = resolve(env_key, store)
    /\ pc = "init"
    /\ diff = EmptyDiff
    /\ current_key = NoKey
    /\ client = NoClient
    /\ message = ""
    /\ should_commit = FALSE
    /\ out = NoOutput
    /\ exit_code = Running
    /\ log = << >>
    /\ run = 1
    /\ pre = Snapshot(worktree, index, commits, store)
    /\ prev = NoPrev

RetryOnFailure(c) ==
    IF c = EXIT_SUCCESS
    THEN pc' = "done" /\ exit_code' = c
    ELSE pc' = pc /\ exit_code' = Running

\* the process ends with exit code c
Terminate(c) ==
    /\ pc' = "done"
    /\ exit_code' = c

(***************************************************************************)
(* generate, lines 69-75: repository check                                 *)
(***************************************************************************)
CheckRepo ==
    /\ pc = "init"
    /\ log' = Append(log, Call("is_git_repo", "", is_repo))
    /\ IF NotGitRepo(is_repo)
       THEN /\ out' = print_error(out, "NOT_GIT_REPO")
            /\ Terminate(EXIT_NOT_GIT_REPO)
       ELSE /\ pc' = "stage"
            /\ UNCHANGED <<out, exit_code>>
    /\ UNCHANGED <<opts, repo, cred, locals, runs>>

(***************************************************************************)
(* generate, lines 77-87: stage all changes                                *)
(***************************************************************************)
StageAll ==
    /\ pc = "stage"
    /\ \E ok \in BOOLEAN :
         LET r == StageCall(print_only, ok /\ is_repo, worktree, index)
             shown == IF print_only THEN out
                      ELSE console_print(out, "status", "Staging all changes...")
         IN /\ log' = Append(log, Call("stage_all_changes", "", r.ok))
            /\ worktree' = r.worktree
            /\ index' = r.index
            /\ IF StageFailed(r.ok)
               THEN /\ out' = print_error(shown, "STAGE_FAILED")
                    /\ Terminate(EXIT_STAGE_FAILED)
               ELSE /\ out' = shown
                    /\ pc' = "diff"
                    /\ UNCHANGED exit_code
    /\ UNCHANGED <<opts, is_repo, commits, cred, locals, runs>>

(***************************************************************************)
(* generate, lines 89-101: read the staged diff                            *)
(***************************************************************************)
ReadDiff ==
    /\ pc = "diff"
    /\ \E ok \in BOOLEAN :
         LET d == get_git_diff(ok /\ is_repo, index)
             shown == IF print_only THEN out
                      ELSE console_print(out, "status", "Reading staged changes...")
         IN /\ log' = Append(log, Call("get_git_diff", TRUE, d))
            /\ diff' = d
            /\ IF NoChanges(d)
               THEN /\ out' = print_error(shown, "NO_CHANGES")
                    /\ Terminate(EXIT_NO_CHANGES)
               ELSE /\ out' = shown
                    /\ pc' = "provider"
                    /\ UNCHANGED exit_code
    /\ UNCHANGED <<opts, repo, cred, current_key, client, message,
                   should_commit, runs>>

(***************************************************************************)
(* generate, lines 103-109: validate the provider                          *)
(***************************************************************************)
ValidateProvider ==
    /\ pc = "provider"
    /\ IF Unsupported(provider)
       THEN /\ out' = print_error(out, "UNSUPPORTED_PROVIDER")
            /\ Terminate(EXIT_UNKNOWN_ERROR)
       ELSE /\ pc' = "credential"
            /\ UNCHANGED <<out, exit_code>>
    /\ UNCHANGED <<opts, repo, cred, locals, log, runs>>

(***************************************************************************)
(* generate, lines 111-125: read the credential                            *)
(***************************************************************************)
ResolveCredential ==
    /\ pc = "credential"
    /\ current_key' = GEMINI_API_KEY
    /\ IF KeyMissing(GEMINI_API_KEY)
       THEN IF NonInteractive(print_only)
            THEN /\ out' = print_error(out, "API_KEY_MISSING")
                 /\ Terminate(EXIT_API_KEY_MISSING)
            ELSE /\ out' = console_print(out, "yellow", "Missing GEMINI_API_KEY.")
                 /\ pc' = "prompt"
                 /\ UNCHANGED exit_code
       ELSE /\ pc' = "generate"
            /\ UNCHANGED <<out, exit_code>>
    /\ UNCHANGED <<opts, repo, cred, diff, client, message, should_commit,
                   log, runs>>

(***************************************************************************)
(* generate, lines 126-137: interactive credential prompt                  *)
(***************************************************************************)
PromptKey ==
    /\ pc = "prompt"
    /\ \E entered \in EnteredKeys :
         LET asked == console_print(out, "prompt", "Please enter your API Key")
             logged == Append(log, Call("Prompt.ask", "", entered))
         IN /\ current_key' = entered
            /\ IF Entered(entered)
               THEN /\ store' = save_key_to_env(store, entered)
                    /\ log' = Append(logged, Call("save_key_to_env", entered, ""))
                    /\ out' = console_print(asked, "green", "API Key saved successfully to .env")
                    /\ pc' = "generate"
                    /\ UNCHANGED exit_code
               ELSE /\ store' = store
                    /\ log' = logged
                    /\ out' = print_error(asked, "API_KEY_MISSING")
                    /\ Terminate(EXIT_API_KEY_MISSING)
    /\ UNCHANGED <<opts, repo, env_key, GEMINI_API_KEY, diff, client, message,
                   should_commit, runs>>

(***************************************************************************)
(* generate, lines 139-158 and 176-196: call the backend                   *)
(***************************************************************************)
Generate ==
    /\ pc = "generate"
    /\ client' = [provider |-> provider, model |-> model, api_key |-> api_key_arg]
    /\ \E outcome \in Messages \cup BackendFailures :
         LET shown == IF print_only THEN out
                      ELSE console_print(out, "status", "Generating commit message...")
             h == HandleException(BackendError(outcome), shown)
         IN /\ log' = Append(log, Call("generate_commit_message", client', outcome))
            /\ IF outcome \in Messages
               THEN /\ message' = outcome
                    /\ IF PrintOnly(print_only)
                       THEN /\ out' = print(shown, outcome)
                            /\ Terminate(EXIT_SUCCESS)
                       ELSE /\ out' = console_print(shown, "panel", outcome)
                            /\ pc' = "confirm"
                            /\ UNCHANGED exit_code
               ELSE /\ out' = h.out
                    /\ Terminate(h.code)
                    /\ UNCHANGED message
    /\ UNCHANGED <<opts, repo, cred, diff, current_key, should_commit, runs>>

(***************************************************************************)
(* generate, lines 160-166 and 173-174: accept or decline                  *)
(***************************************************************************)
Confirm ==
    /\ pc = "confirm"
    /\ \E answer \in BOOLEAN :
         LET asked == console_print(out, "prompt", "Do you want to commit with this message?")
         IN /\ IF SkipConfirmation(yes)
               THEN /\ should_commit' = TRUE
                    /\ log' = log
               ELSE /\ should_commit' = answer
                    /\ log' = Append(log, Call("Confirm.ask", "", answer))
            /\ IF Accepted(should_commit')
               THEN /\ out' = IF SkipConfirmation(yes) THEN out ELSE asked
                    /\ pc' = "commit"
                    /\ UNCHANGED exit_code
               ELSE /\ out' = console_print(asked, "yellow", "Operation aborted.")
                    /\ Terminate(EXIT_SUCCESS)
    /\ UNCHANGED <<opts, repo, cred, diff, current_key, client, message, runs>>

(***************************************************************************)
(* generate, lines 167-172 and 191-196: commit                             *)
(***************************************************************************)
Commit ==
    /\ pc = "commit"
    /\ \E ok \in BOOLEAN :
         LET r == commit_changes(ok /\ is_repo, message, index, commits)
             h == HandleException(Exit(EXIT_COMMIT_FAILED),
                                  print_error(out, "COMMIT_FAILED"))
         IN /\ log' = Append(log, Call("commit_changes", message, r.ok))
            /\ index' = r.index
            /\ commits' = r.commits
            /\ IF r.ok
               THEN /\ out' = console_print(out, "green", "Success! Changes committed.")
                    /\ Terminate(EXIT_SUCCESS)
               ELSE /\ out' = h.out
                    /\ Terminate(h.code)
    /\ UNCHANGED <<opts, is_repo, worktree, cred, locals, runs>>

(***************************************************************************)
(* main.py: the command is invoked again, in a new process, on the         *)
(* repository and credential store the previous run left behind            *)
(***************************************************************************)
Invoke ==
    /\ pc = "done"
    /\ run < MaxRuns
    /\ run' = run + 1
    /\ prev' = [exit |-> exit_code, pre |-> pre,
                post |-> Snapshot(worktree, index, commits, store),
                log |-> log]
    /\ provider' \in Providers
    /\ model' \in Models
    /\ yes' \in BOOLEAN
    /\ print_only' \in BOOLEAN
    /\ UNCHANGED <<repo, env_key, store>>
    /\ GEMINI_API_KEY' = resolve(env_key, store)
    /\ pc' = "init"
    /\ diff' = EmptyDiff
    /\ current_key' = NoKey
    /\ client' = NoClient
    /\ message' = ""
    /\ should_commit' = FALSE
    /\ out' = NoOutput
    /\ exit_code' = Running
    /\ log' = << >>
    /\ pre' = Snapshot(worktree, index, commits, store)

Next ==
    \/ CheckRepo
    \/ StageAll
    \/ ReadDiff
    \/ ValidateProvider
    \/ ResolveCredential
    \/ PromptKey
    \/ Generate
    \/ Confirm
    \/ Commit
    \/ Invoke

Spec == Init /\ [][Next]_vars

(***************************************************************************)
(* Ctrl-C while generate is blocked in a subprocess, in the backend call   *)
(* or in a prompt: KeyboardInterrupt is raised at that call.  Lines 69-137 *)
(* are outside the try statement; lines 140-174 are inside it.             *)
(***************************************************************************)
BlockingCalls == {"stage", "diff", "prompt", "generate", "confirm", "commit"}
InTry == {"generate", "confirm", "commit"}

Interrupt ==
    /\ pc \in BlockingCalls
    /\ pc = "confirm" => ~SkipConfirmation(yes)
    /\ log' = Append(log, Call("KeyboardInterrupt", pc, ""))
    /\ LET h == IF pc \in InTry THEN HandleException(KeyboardInterrupt, out)
                ELSE Uncaught(KeyboardInterrupt, out)
       IN /\ out' = h.out
          /\ Terminate(h.code)
    /\ UNCHANGED <<opts, repo, cred, locals, runs>>

NextInterrupt ==
    \/ Next
    \/ Interrupt

SpecInterrupt == Init /\ [][NextInterrupt]_vars

(***************************************************************************)
(* Properties                                                              *)
(***************************************************************************)
GEN == "generate_commit_message"
Now == Snapshot(worktree, index, commits, store)
Done == pc = "done"
\* the run read the staged diff and got d
DiffRead(l, d) == NCalls(l, "get_git_diff") = 1 /\ Calls(l, "get_git_diff")[1].ret = d
\* the run got past the diff stage
DiffNonEmpty(l) ==
    NCalls(l, "get_git_diff") = 1 /\ Calls(l, "get_git_diff")[1].ret # EmptyDiff
\* the backend was called and answered r (a message or an exception class)
BackendAnswered(l, r) == NCalls(l, GEN) = 1 /\ Calls(l, GEN)[1].ret = r
BackendReturnedMessage(l) == NCalls(l, GEN) = 1 /\ Calls(l, GEN)[1].ret \in Messages
ErrorsPrinted(o) == SelectSeq(o["stderr"], LAMBDA e : e[1] = "error")

\* C1: a run outside a git repository exits with code 1 whatever the options
\* are, and stages nothing, reads no diff, prompts for nothing, never calls
\* the backend and commits nothing.
C1_NotGitRepo ==
    ~is_repo =>
        /\ pc \in {"init", "done"}
        /\ Done => exit_code = 1
        /\ \A op \in Ops \ {"is_git_repo"} : NCalls(log, op) = 0
        /\ Now = pre

C1_Witness ==
    /\ ~is_repo /\ Done /\ exit_code = 1
    /\ provider = "openai" /\ model = "gemini-pro" /\ yes /\ print_only
    /\ NCalls(log, "is_git_repo") = 1

\* C2: a run whose staged diff is the empty string exits with code 3; the
\* backend is not called, no credential prompt is issued, nothing is
\* committed.
C2_EmptyDiff ==
    DiffRead(log, EmptyDiff) =>
        /\ Done /\ exit_code = 3
        /\ NCalls(log, GEN) = 0
        /\ NCalls(log, "Prompt.ask") = 0
        /\ NCalls(log, "commit_changes") = 0
        /\ commits = pre[3]

C2_Witness ==
    /\ DiffRead(log, EmptyDiff) /\ Done /\ exit_code = 3
    /\ provider = "openai" /\ GEMINI_API_KEY = NoKey /\ ~print_only

\* C3 as stated: every run with an unsupported provider exits with code 99
\* and never calls the backend.
C3_Original ==
    (provider # "gemini" /\ Done) =>
        /\ exit_code = 99
        /\ NCalls(log, GEN) = 0

\* C3 as amended: a run with an unsupported provider never calls the backend
\* and never prompts; it exits with code 99 when the repository is valid,
\* staging succeeded and the diff is non-empty, and with the code of the
\* earlier failing stage (1, 2 or 3) otherwise.
C3_UnsupportedProvider ==
    provider # "gemini" =>
        /\ NCalls(log, GEN) = 0
        /\ NCalls(log, "Prompt.ask") = 0
        /\ NCalls(log, "commit_changes") = 0
        /\ (Done /\ DiffNonEmpty(log)) => exit_code = 99
        /\ (Done /\ ~DiffNonEmpty(log)) => exit_code \in {1, 2, 3}
        /\ (~Done /\ DiffNonEmpty(log)) => pc = "provider"

C3_Witness ==
    /\ provider = "openai" /\ Done /\ exit_code = 99
    /\ DiffNonEmpty(log) /\ GEMINI_API_KEY # NoKey

\* C4: when the backend fails the exit code depends on the error kind only:
\* KeyMissing 10, KeyInvalid 11, QuotaExceeded 12, RequestFailed 13, generic
\* client error 99, in print-only and in interactive mode alike; the five
\* codes differ from each other and from 0.
C4_Codes ==
    [k \in LLMErrorKinds |->
        CASE k = "APIKeyMissingError" -> 10
          [] k = "APIKeyInvalidError" -> 11
          [] k = "APIQuotaExceededError" -> 12
          [] k = "APIRequestError" -> 13
          [] k = "LLMClientError" -> 99]

C4_ErrorKindExit ==
    /\ \A k \in LLMErrorKinds :
         BackendAnswered(log, k) => (Done /\ exit_code = C4_Codes[k] /\ exit_code # 0)
    /\ \A k1, k2 \in LLMErrorKinds :
         (/\ run >= 2 /\ BackendAnswered(prev.log, k1)
          /\ Done /\ BackendAnswered(log, k2)) =>
             ((prev.exit = exit_code) <=> (k1 = k2))

C4_Witness ==
    /\ run >= 2 /\ BackendAnswered(prev.log, "LLMClientError") /\ prev.exit = 99
    /\ Done /\ BackendAnswered(log, "APIQuotaExceededError") /\ exit_code = 12
    /\ print_only

\* C5: a print-only run writes to standard output either nothing (when it
\* fails) or the generated message, once (when it succeeds); an interactive
\* run writes nothing to standard output; status and diagnostics are on the
\* error stream.
C5_Stdout ==
    /\ print_only =>
         \/ stdout = << >> /\ ~(Done /\ exit_code = 0)
         \/ /\ Done /\ exit_code = 0
            /\ BackendReturnedMessage(log)
            /\ stdout = << <<"plain", Calls(log, GEN)[1].ret>> >>
    /\ ~print_only => stdout = << >>
    /\ (Done /\ exit_code # 0) => Len(ErrorsPrinted(out)) >= 1

C5_Witness ==
    /\ print_only /\ Done /\ exit_code = 0
    /\ stdout = << <<"plain", "feat: add X">> >>
    /\ stderr = << >>

\* C6: a print-only run never prompts (neither for the credential nor for
\* the confirmation); with a valid repository, a non-empty diff, provider
\* gemini and no credential it exits with code 10 without calling the
\* backend, without writing the credential store, with an empty standard
\* output.
C6_NoPromptPrintOnly ==
    print_only =>
        /\ NCalls(log, "Prompt.ask") = 0
        /\ NCalls(log, "Confirm.ask") = 0
        /\ pc \notin {"prompt", "confirm"}
        /\ \A f \in Streams : \A i \in DOMAIN out[f] : out[f][i][1] # "prompt"
        /\ (/\ DiffNonEmpty(log) /\ provider = "gemini"
            /\ GEMINI_API_KEY = NoKey /\ pc \notin {"provider", "credential"}) =>
              /\ Done /\ exit_code = 10
              /\ NCalls(log, GEN) = 0
              /\ NCalls(log, "save_key_to_env") = 0
              /\ store = pre[4]
              /\ stdout = << >>

C6_Witness ==
    /\ print_only /\ Done /\ exit_code = 10
    /\ DiffNonEmpty(log) /\ provider = "gemini" /\ GEMINI_API_KEY = NoKey

\* C7: two runs in succession on a clean repository (nothing to stage,
\* nothing staged) both end with code 3 when staging itself succeeds, and
\* neither changes the index, the commits or the credential store, nor calls
\* the backend.
Clean(s) == s[1] = {} /\ s[2] = {}
StageOk(l) ==
    NCalls(l, "stage_all_changes") = 1 /\ Calls(l, "stage_all_changes")[1].ret = TRUE

C8_AutoYes ==
    (Done /\ ~print_only /\ yes /\ BackendReturnedMessage(log)) =>
        /\ NCalls(log, "Confirm.ask") = 0
        /\ \A i \in DOMAIN stderr : stderr[i][1] # "prompt" \/ GEMINI_API_KEY = NoKey
        /\ NCalls(log, "commit_changes") = 1
        /\ Calls(log, "commit_changes")[1].arg = Calls(log, GEN)[1].ret
        /\ Calls(log, "commit_changes")[1].ret = TRUE =>
              /\ exit_code = 0
              /\ Len(commits) = Len(pre[3]) + 1
              /\ SubSeq(commits, 1, Len(pre[3])) = pre[3]
              /\ commits[Len(commits)].message = Calls(log, GEN)[1].ret

C8_Witness ==
    /\ Done /\ ~print_only /\ yes /\ GEMINI_API_KEY # NoKey
    /\ BackendAnswered(log, "feat: add X")
    /\ exit_code = 0
    /\ commits = << [message |-> "feat: add X", files |-> {1}] >>

\* C9: commit is called only after the backend returned a message and that
\* message was accepted (--yes, or a yes to the confirmation), and with that
\* message; after a backend error there is no commit (quota exceeded exits
\* with 12); after a declined confirmation there is no commit and the exit
\* code is 0.
C9_CommitOnlyAfterAcceptance ==
    /\ \A i \in DOMAIN log :
         log[i].op = "commit_changes" =>
            /\ \E j \in 1..(i - 1) :
                 /\ log[j].op = GEN
                 /\ log[j].ret \in Messages
                 /\ log[i].arg = log[j].ret
            /\ \/ yes
               \/ \E j \in 1..(i - 1) : log[j].op = "Confirm.ask" /\ log[j].ret = TRUE
    /\ commits # pre[3] => NCalls(log, "commit_changes") = 1
    /\ \A k \in BackendFailures :
         BackendAnswered(log, k) =>
            /\ Done
            /\ NCalls(log, "commit_changes") = 0
            /\ commits = pre[3]
    /\ BackendAnswered(log, "APIQuotaExceededError") => exit_code = 12
    /\ (NCalls(log, "Confirm.ask") = 1 /\ Calls(log, "Confirm.ask")[1].ret = FALSE) =>
            /\ Done /\ exit_code = 0
            /\ NCalls(log, "commit_changes") = 0
            /\ commits = pre[3]

C9_Witness ==
    /\ Done /\ exit_code = 0 /\ ~yes
    /\ NCalls(log, "Confirm.ask") = 1 /\ Calls(log, "Confirm.ask")[1].ret = FALSE
    /\ commits = pre[3] /\ index # {}

\* C10: when the accepted message cannot be committed (commit_changes returns
\* false) the run exits with code 20, not 99 and not a backend error code,
\* and the only error printed is COMMIT_FAILED.
CommitFailed(l) ==
    NCalls(l, "commit_changes") = 1 /\ Calls(l, "commit_changes")[1].ret = FALSE

C10_CommitFailedExit ==
    CommitFailed(log) =>
        /\ Done /\ exit_code = 20
        /\ ErrorsPrinted(out) = << <<"error", "COMMIT_FAILED">> >>
        /\ commits = pre[3]

C10_Witness ==
    /\ CommitFailed(log) /\ Done /\ exit_code = 20
    /\ ~yes /\ index # {}

\* the run was interrupted by Ctrl-C
Interrupted(l) == NCalls(l, "KeyboardInterrupt") = 1
CommitSucceeded(l) ==
    NCalls(l, "commit_changes") = 1 /\ Calls(l, "commit_changes")[1].ret = TRUE
Declined(l) ==
    NCalls(l, "Confirm.ask") = 1 /\ Calls(l, "Confirm.ask")[1].ret = FALSE

\* C11: a run ends with exit code 0 exactly when the backend was called and
\* returned a message and the run is print-only, or interactive with a
\* successful commit, or interactive with a declined confirmation; every
\* other run ends with one of the codes 1, 2, 3, 10, 11, 12, 13, 20, 99.
C11_ExitZeroIff ==
    Done =>
        /\ (exit_code = 0) <=>
              /\ BackendReturnedMessage(log)
              /\ \/ print_only
                 \/ ~print_only /\ CommitSucceeded(log)
                 \/ ~print_only /\ Declined(log)
        /\ exit_code # 0 => exit_code \in {1, 2, 3, 10, 11, 12, 13, 20, 99}

C11_Witness ==
    /\ Done /\ exit_code = 0 /\ ~print_only /\ CommitSucceeded(log)
    /\ GEMINI_API_KEY = NoKey /\ store = "typed-key"

\* the error codes that go with an exit code
C12_ErrorCodes(c) ==
    CASE c = 1 -> {"NOT_GIT_REPO"}
      [] c = 2 -> {"STAGE_FAILED"}
      [] c = 3 -> {"NO_CHANGES"}
      [] c = 10 -> {"API_KEY_MISSING"}
      [] c = 11 -> {"API_KEY_INVALID"}
      [] c = 12 -> {"QUOTA_EXCEEDED"}
      [] c = 13 -> {"API_ERROR"}
      [] c = 20 -> {"COMMIT_FAILED"}
      [] c = 99 -> {"UNSUPPORTED_PROVIDER", "UNKNOWN"}
      [] OTHER -> {}

\* C12: a run that exits with a non-zero code has printed exactly one
\* error-coded message, with the error code of that exit code; a run that
\* exits with 0 has printed none.
C12_OneErrorPerFailure ==
    Done =>
        /\ exit_code # 0 =>
              /\ Len(ErrorsPrinted(out)) = 1
              /\ ErrorsPrinted(out)[1][2] \in C12_ErrorCodes(exit_code)
        /\ exit_code = 0 => Len(ErrorsPrinted(out)) = 0

\* C13: a run interrupted in a blocking call exits with code 99, and makes
\* no commit after the interrupt.
C13_InterruptExit ==
    (Done /\ Interrupted(log)) =>
        /\ exit_code = 99
        /\ log[Len(log)].op = "KeyboardInterrupt"
        /\ NCalls(log, "commit_changes") = 0
        /\ commits = pre[3]

\* position of a stage in generate
Rank(p) ==
    CASE p = "init" -> 0
      [] p = "stage" -> 1
      [] p = "diff" -> 2
      [] p = "provider" -> 3
      [] p = "credential" -> 4
      [] p = "prompt" -> 5
      [] p = "generate" -> 6
      [] p = "confirm" -> 7
      [] p = "commit" -> 8
      [] p = "done" -> 9

\* a call of the run failed
FailureLogged(l) ==
    \E i \in DOMAIN l :
       \/ l[i].op \in {"is_git_repo", "stage_all_changes", "commit_changes"} /\ l[i].ret = FALSE
       \/ l[i].op = "get_git_diff" /\ l[i].ret = EmptyDiff
       \/ l[i].op = "Prompt.ask" /\ l[i].ret = NoKey
       \/ l[i].op = GEN /\ l[i].ret \in BackendFailures
       \/ l[i].op = "KeyboardInterrupt"

\* C14: within one run every call (repository check, stage-all, diff,
\* credential prompt, backend, confirmation, commit) happens at most once,
\* every step moves to a later stage, a run that is not finished can always
\* take its next step, and after a failure the run is finished: nothing is
\* retried.
C14_ForwardProgress ==
    /\ [](\A op \in Ops : NCalls(log, op) <= 1)
    /\ [](FailureLogged(log) => Done)
    /\ [](~Done => ENABLED (Next /\ run' = run))
    /\ [][run' = run => Rank(pc') > Rank(pc)]_vars
    /\ [][run' # run => (pc = "done" /\ pc' = "init")]_vars

C14_Witness ==
    /\ Done /\ BackendAnswered(log, "APIKeyInvalidError") /\ exit_code = 11
    /\ NCalls(log, "Prompt.ask") = 1 /\ Len(log) = 6

\* position of a call in generate
OpRank(op) ==
    CASE op = "is_git_repo" -> 0
      [] op = "stage_all_changes" -> 1
      [] op = "get_git_diff" -> 2
      [] op = "Prompt.ask" -> 4
      [] op = "save_key_to_env" -> 5
      [] op = GEN -> 6
      [] op = "Confirm.ask" -> 7
      [] op = "commit_changes" -> 8
      [] op = "KeyboardInterrupt" -> 9

StageFailedIn(l) ==
    NCalls(l, "stage_all_changes") = 1 /\ Calls(l, "stage_all_changes")[1].ret = FALSE

\* C15: the calls of a run are made in the order repository check, stage,
\* diff, (provider validation,) credential, backend, confirmation, commit; a
\* stage is entered only when every earlier stage succeeded; so the exit code
\* is that of the earliest failing stage: a staging failure gives 2 with no
\* diff read and no backend call, an empty diff gives 3 also with an
\* unsupported provider or a missing credential, an unsupported provider
\* gives 99 also with a missing credential.
C15_StageOrder ==
    /\ \A i, j \in DOMAIN log : i < j => OpRank(log[i].op) < OpRank(log[j].op)
    /\ Rank(pc) >= 1 => NCalls(log, "is_git_repo") = 1
    /\ (Rank(pc) \in 1..8 \/ NCalls(log, "stage_all_changes") = 1) => is_repo
    /\ (Rank(pc) \in 2..8 \/ NCalls(log, "get_git_diff") = 1) => StageOk(log)
    /\ Rank(pc) \in 3..8 => DiffNonEmpty(log)
    /\ (Rank(pc) \in 4..8 \/ NCalls(log, "Prompt.ask") = 1 \/ NCalls(log, GEN) = 1) =>
          DiffNonEmpty(log) /\ provider = "gemini"
    /\ (Rank(pc) \in 6..8 \/ NCalls(log, GEN) = 1) => current_key # NoKey
    /\ (Rank(pc) \in 7..8 \/ NCalls(log, "Confirm.ask") = 1) =>
          BackendReturnedMessage(log)
    /\ (pc = "commit" \/ NCalls(log, "commit_changes") = 1) => should_commit
    /\ StageFailedIn(log) =>
          /\ Done /\ exit_code = 2
          /\ NCalls(log, "get_git_diff") = 0
          /\ NCalls(log, GEN) = 0
    /\ DiffRead(log, EmptyDiff) => (Done /\ exit_code = 3)
    /\ (Done /\ DiffNonEmpty(log) /\ provider # "gemini") =>
          /\ exit_code = 99
          /\ NCalls(log, "Prompt.ask") = 0

C15_Witness ==
    /\ Done /\ exit_code = 3 /\ DiffRead(log, EmptyDiff)
    /\ provider = "openai" /\ GEMINI_API_KEY = NoKey /\ print_only
    /\ Len(log) = 3

\* the credential prompt was answered with k
PromptAnswered(l, k) == NCalls(l, "Prompt.ask") = 1 /\ Calls(l, "Prompt.ask")[1].ret = k
KeyTyped(l) == NCalls(l, "Prompt.ask") = 1 /\ Calls(l, "Prompt.ask")[1].ret # NoKey
InterruptedAt(l, p) ==
    NCalls(l, "KeyboardInterrupt") = 1 /\ Calls(l, "KeyboardInterrupt")[1].arg = p

\* C16: an interactive run without credential, whose earlier stages passed,
\* prompts for the credential exactly once; an empty entry ends the run with
\* code 10 without backend call; a non-empty entry is saved and the run goes
\* on to the backend call, made with exactly the entered value as api key.
C16_CredentialPrompt ==
    /\ NCalls(log, "Prompt.ask") <= 1
    /\ NCalls(log, "Prompt.ask") = 1 =>
          /\ ~print_only /\ GEMINI_API_KEY = NoKey
          /\ DiffNonEmpty(log) /\ provider = "gemini"
    /\ (/\ ~print_only /\ GEMINI_API_KEY = NoKey
        /\ DiffNonEmpty(log) /\ provider = "gemini"
        /\ Rank(pc) >= 6 /\ ~InterruptedAt(log, "prompt")) =>
          NCalls(log, "Prompt.ask") = 1
    /\ PromptAnswered(log, NoKey) =>
          /\ Done /\ exit_code = 10
          /\ NCalls(log, GEN) = 0
          /\ NCalls(log, "save_key_to_env") = 0
          /\ store = pre[4]
    /\ KeyTyped(log) =>
          /\ NCalls(log, "save_key_to_env") = 1
          /\ Calls(log, "save_key_to_env")[1].arg = Calls(log, "Prompt.ask")[1].ret
          /\ store = Calls(log, "Prompt.ask")[1].ret
          /\ current_key = Calls(log, "Prompt.ask")[1].ret
          /\ pc = "generate" \/ NCalls(log, GEN) = 1 \/ InterruptedAt(log, "generate")
          /\ NCalls(log, GEN) = 1 =>
                /\ Calls(log, GEN)[1].arg.api_key = Calls(log, "Prompt.ask")[1].ret
                /\ client.api_key = Calls(log, "Prompt.ask")[1].ret

C16_Witness ==
    /\ Done /\ PromptAnswered(log, "typed-key") /\ BackendReturnedMessage(log)
    /\ client.api_key = "typed-key" /\ Declined(log)

\* C17: a run writes the credential store at most once, and it writes it
\* exactly when it is interactive, found no credential and got a non-empty
\* entry at the prompt; on every other path the store is unchanged.
C17_StoreWrites ==
    /\ NCalls(log, "save_key_to_env") <= 1
    /\ (NCalls(log, "save_key_to_env") = 1) <=>
          (~print_only /\ GEMINI_API_KEY = NoKey /\ KeyTyped(log))
    /\ NCalls(log, "save_key_to_env") = 0 => store = pre[4]
    /\ NCalls(log, "save_key_to_env") = 1 =>
          /\ store = Calls(log, "save_key_to_env")[1].arg
          /\ store = Calls(log, "Prompt.ask")[1].ret

C17_Witness ==
    /\ Done /\ NCalls(log, "save_key_to_env") = 1
    /\ pre[4] = NoKey /\ store = "typed-key"
    /\ BackendAnswered(log, "APIQuotaExceededError")

\* C18: in a print-only run a message returned by the backend ends the run
\* with code 0 right after it is printed; no confirmation is asked and
\* commit is never called, also when --yes is given.
C18_PrintOnlyStops ==
    print_only =>
        /\ NCalls(log, "Confirm.ask") = 0
        /\ NCalls(log, "commit_changes") = 0
        /\ pc \notin {"confirm", "commit"}
        /\ commits = pre[3]
        /\ BackendReturnedMessage(log) =>
              /\ Done /\ exit_code = 0
              /\ log[Len(log)].op = GEN
              /\ stdout[Len(stdout)] = <<"plain", Calls(log, GEN)[1].ret>>

C18_Witness ==
    /\ print_only /\ yes /\ Done /\ exit_code = 0
    /\ BackendAnswered(log, "fix: Y") /\ index # {}

\* C19: a credential typed at the prompt is saved before the backend is
\* called and stays saved: whatever happens afterwards (the backend rejects
\* the key with exit 11, or fails otherwise), the store holds the typed
\* value when the run exits, and the next run finds it.
C19_KeyPersisted ==
    /\ KeyTyped(log) =>
          /\ store = Calls(log, "Prompt.ask")[1].ret
          /\ \A i \in DOMAIN log :
               log[i].op = GEN =>
                  \E j \in 1..(i - 1) :
                     /\ log[j].op = "save_key_to_env"
                     /\ log[j].arg = Calls(log, "Prompt.ask")[1].ret
          /\ BackendAnswered(log, "APIKeyInvalidError") => (Done /\ exit_code = 11)
    /\ (run >= 2 /\ KeyTyped(prev.log)) =>
          /\ prev.post[4] = Calls(prev.log, "Prompt.ask")[1].ret
          /\ pre[4] = prev.post[4]
          /\ GEMINI_API_KEY = prev.post[4]

C19_Witness ==
    /\ Done /\ exit_code = 11 /\ BackendAnswered(log, "APIKeyInvalidError")
    /\ KeyTyped(log) /\ store = "typed-key" /\ pre[4] = NoKey

\* C20: every run that passes the repository check stages all changes, in
\* print-only mode too, before it reads the diff, and never unstages: unless
\* the run ends with a successful commit, everything stage-all staged is
\* still staged.
C20_StagingKept ==
    /\ (is_repo /\ Rank(pc) >= 2) =>
          \/ NCalls(log, "stage_all_changes") = 1
          \/ InterruptedAt(log, "stage")
    /\ \A i \in DOMAIN log :
         log[i].op = "get_git_diff" =>
            \E j \in 1..(i - 1) : log[j].op = "stage_all_changes" /\ log[j].ret = TRUE
    /\ (StageOk(log) /\ ~CommitSucceeded(log)) =>
          /\ index = pre[1] \cup pre[2]
          /\ worktree = {}
    /\ (StageOk(log) /\ CommitSucceeded(log)) =>
          /\ index = {}
          /\ commits[Len(commits)].files = pre[1] \cup pre[2]

C20_Witness ==
    /\ Done /\ print_only /\ exit_code = 0
    /\ pre[1] = {1} /\ pre[2] = {} /\ index = {1}

=============================================================================
